---- MODULE Spec2Model ----
(***************************************************************************)
(* Model of autodE's rational function optimiser (RFOptimiser), of the     *)
(* work_in / requires_atoms decorators and of the RDKit conformer pruning. *)
(*                                                                         *)
(* Real numbers are exact rationals <<numerator, denominator>> in lowest   *)
(* terms with a positive denominator; vectors are sequences of rationals.  *)
(***************************************************************************)
EXTENDS Integers, Sequences, FiniteSets

VARIABLES
    \* ---- RFOptimiser object and its run
    species,        \* self._species: [coordinates, hessian]
    coords,         \* self._coords (internal coordinates); <<>> while unset
    alpha,          \* self.alpha
    g,              \* self._coords.g
    h,              \* self._coords.h
    h_inv,          \* self._coords.h_inv
    prev,           \* previous iterate [coords, g] (Hessian update record)
    iteration,      \* number of RFO steps taken
    phase,          \* driver state
    pc,             \* position inside _initialise_run / one iteration
    trace,          \* operations the run has performed, in order
    updater,        \* Hessian update strategy used by each _step, in order
    \* ---- a direct call of _take_step_within_trust_radius
    call,
    \* ---- mode selection inside _step
    lmda,           \* aug_H_lmda, ascending
    mode,           \* [status, index]: the index chosen (0-based) or IndexError
    \* ---- decorators of utils.py
    cwd,            \* os.getcwd(): a path, a sequence of directory names
    dirs,           \* directories that exist
    deco,           \* the decorated call in progress / last finished
    \* ---- generate_unique_rdkit_confs
    conf            \* [conf_ids, close, unique_conf_ids]

runVars  == <<species, coords, alpha, g, h, h_inv, prev, iteration, phase, pc, trace, updater>>
modeVars == <<lmda, mode>>
decoVars == <<cwd, dirs, deco>>
vars     == <<runVars, call, modeVars, decoVars, conf>>

None == "None"

(***************************************************************************)
(* Exact rational arithmetic (numpy float arithmetic without rounding)     *)
(***************************************************************************)
Abs(x) == IF x < 0 THEN -x ELSE x

RECURSIVE GCD(_, _)
GCD(a, b) == IF b = 0 THEN a ELSE GCD(b, a % b)

Rat(n, d) ==
    LET s  == IF d < 0 THEN -1 ELSE 1
        gg == GCD(Abs(n), Abs(d))
    IN  <<(s * n) \div gg, (s * d) \div gg>>

Zero == <<0, 1>>
One  == <<1, 1>>
Int2R(n)   == <<n, 1>>
RAdd(a, b) == Rat(a[1] * b[2] + b[1] * a[2], a[2] * b[2])
RSub(a, b) == Rat(a[1] * b[2] - b[1] * a[2], a[2] * b[2])
RMul(a, b) == Rat(a[1] * b[1], a[2] * b[2])
RDiv(a, b) == Rat(a[1] * b[2], a[2] * b[1])
RLt(a, b)  == a[1] * b[2] < b[1] * a[2]
RLe(a, b)  == a[1] * b[2] <= b[1] * a[2]
RAbs(a)    == <<Abs(a[1]), a[2]>>
RMax(a, b) == IF RLt(a, b) THEN b ELSE a

VAdd(u, v)   == [i \in 1..Len(u) |-> RAdd(u[i], v[i])]
VSub(u, v)   == [i \in 1..Len(u) |-> RSub(u[i], v[i])]
VScale(c, v) == [i \in 1..Len(v) |-> RMul(c, v[i])]

RECURSIVE VSum(_)
VSum(v) == IF Len(v) = 0 THEN Zero ELSE RAdd(v[1], VSum(Tail(v)))

RECURSIVE MaxAbs(_)
\* np.max(np.abs(v)) of a non-empty vector
MaxAbs(v) == IF Len(v) = 1 THEN RAbs(v[1]) ELSE RMax(RAbs(v[1]), MaxAbs(Tail(v)))

Dot(u, v) == VSum([i \in 1..Len(u) |-> RMul(u[i], v[i])])

(***************************************************************************)
(* Coordinates: a linear internal -> Cartesian map.  n internal            *)
(* coordinates give n + 1 Cartesian components: the coordinates themselves *)
(* and their sum.                                                          *)
(***************************************************************************)
ToCart(s) == [k \in 1..(Len(s) + 1) |-> IF k <= Len(s) THEN s[k] ELSE VSum(s)]

\* CartesianCoordinates(x).to("dic"): the inverse of ToCart on its image
ToDIC(x) == [k \in 1..(Len(x) - 1) |-> x[k]]

(***************************************************************************)
(* RFOptimiser._take_step_within_trust_radius(delta_s, factor) on an       *)
(* optimiser with _coords = c and alpha = a.  Gives the new _coords, the   *)
(* returned coefficient and the number of Cartesian conversions made.      *)
(***************************************************************************)
\* variant: the null step returns the factor argument instead of 0.0
TakeStepReturnsFactorOnNullStep(c, a, delta_s, factor) ==
    IF Len(delta_s) = 0
    THEN [coords |-> c, ret |-> factor, n_to_cart |-> 0]
    ELSE LET new_coords      == VAdd(c, VScale(factor, delta_s))
             cartesian_delta == VSub(ToCart(new_coords), ToCart(c))
             max_component   == MaxAbs(cartesian_delta)
         IN  IF RLt(a, max_component)
             THEN [coords    |-> VAdd(c, VScale(RDiv(a, max_component), delta_s)),
                   ret       |-> RDiv(a, max_component),
                   n_to_cart |-> 2]
             ELSE [coords |-> new_coords, ret |-> factor, n_to_cart |-> 2]

\* variant: the scaled branch does not update the returned factor
TakeStepKeepsFactorWhenScaling(c, a, delta_s, factor) ==
    IF Len(delta_s) = 0
    THEN [coords |-> c, ret |-> Zero, n_to_cart |-> 0]
    ELSE LET new_coords      == VAdd(c, VScale(factor, delta_s))
             cartesian_delta == VSub(ToCart(new_coords), ToCart(c))
             max_component   == MaxAbs(cartesian_delta)
         IN  IF RLt(a, max_component)
             THEN [coords    |-> VAdd(c, VScale(RDiv(a, max_component), delta_s)),
                   ret       |-> factor,
                   n_to_cart |-> 2]
             ELSE [coords |-> new_coords, ret |-> factor, n_to_cart |-> 2]

TakeStepWithinTrustRadius(c, a, delta_s, factor) ==
    IF Len(delta_s) = 0
    THEN [coords |-> c, ret |-> Zero, n_to_cart |-> 0]
    ELSE LET new_coords      == VAdd(c, VScale(factor, delta_s))
             cartesian_delta == VSub(ToCart(new_coords), ToCart(c))
             max_component   == MaxAbs(cartesian_delta)
         IN  IF RLt(a, max_component)
             THEN [coords    |-> VAdd(c, VScale(RDiv(a, max_component), delta_s)),
                   ret       |-> RDiv(a, max_component),
                   n_to_cart |-> 2]
             ELSE [coords |-> new_coords, ret |-> factor, n_to_cart |-> 2]

(***************************************************************************)
(* Mode selection of RFOptimiser._step:                                    *)
(*     mode = np.where(np.abs(aug_H_lmda) > 1e-16)[0][0]                   *)
(* Eigenvalues are integers in units of 1e-17, so 1e-16 is 10.             *)
(***************************************************************************)
Eps == 10

Eligible(l) == {i \in 1..Len(l) : Abs(l[i]) > Eps}

MinOf(S) == CHOOSE x \in S : \A y \in S : x <= y

\* variant: the test leaves out np.abs
ModeSkipsNegative(l) ==
    LET where == {i \in 1..Len(l) : l[i] > Eps}
    IN  IF where = {} THEN [status |-> "IndexError", index |-> 0]
        ELSE [status |-> "ok", index |-> MinOf(where) - 1]

\* 0-based index of the first eigenvalue, in the order eigh returns them,
\* whose magnitude is above Eps; [0][0] of an empty result raises IndexError
ModeOf(l) ==
    LET where == Eligible(l)
    IN  IF where = {} THEN [status |-> "IndexError", index |-> 0]
        ELSE [status |-> "ok", index |-> MinOf(where) - 1]

(***************************************************************************)
(* Values the variables of the parts a specification does not exercise     *)
(* are held at                                                             *)
(***************************************************************************)
NoMode == [status |-> "none", index |-> 0]

NoCall == [called |-> FALSE, delta_s |-> <<>>, factor |-> One, old |-> <<>>,
           ret |-> <<>>, n_to_cart |-> 0, others |-> <<>>]

NoSpecies == [coordinates |-> <<>>, hessian |-> <<>>]
NoPrev    == [coords |-> <<>>, g |-> <<>>]

RunIdle ==
    /\ species = NoSpecies /\ coords = <<>> /\ alpha = Zero /\ g = <<>> /\ h = <<>>
    /\ h_inv = <<>> /\ prev = NoPrev /\ iteration = 0 /\ phase = "Uninitialised"
    /\ pc = "idle" /\ trace = <<>> /\ updater = <<>>
CallIdle == call = NoCall
ModeIdle == lmda = <<>> /\ mode = NoMode
NoDeco == [fn |-> None, pc |-> "idle", here |-> <<>>, dir_path |-> <<>>,
           created |-> FALSE, n_atoms |-> 0, args |-> None, n_calls |-> 0,
           func_args |-> None, func_ret |-> None, result |-> None, exc |-> None]
NoConf == [n |-> 0, close |-> {}, unique_conf_ids |-> <<>>, done |-> FALSE]

DecoIdle == cwd = <<>> /\ dirs = {<<>>} /\ deco = NoDeco
ConfIdle == conf = NoConf

(***************************************************************************)
(* SpecTrust: _take_step_within_trust_radius called once on an optimiser   *)
(* with arbitrary coordinates and trust radius                             *)
(***************************************************************************)
NDof     == 2
MaxCoord == 1
MaxDelta == 2

AlphaVals  == {<<1, 2>>, <<1, 1>>, <<2, 1>>}
FactorVals == {<<1, 2>>, <<1, 1>>, <<2, 1>>}
IntVecs(n, m) == [1..n -> {Int2R(x) : x \in (-m)..m}]
DeltaVals  == {<<>>} \cup IntVecs(NDof, MaxDelta)

InitTrust ==
    /\ coords \in IntVecs(NDof, MaxCoord)
    /\ alpha \in AlphaVals
    /\ species = NoSpecies /\ g = <<>> /\ h = <<>> /\ h_inv = <<>> /\ prev = NoPrev
    /\ iteration = 0 /\ phase = "Iterating" /\ pc = "step" /\ trace = <<>>
    /\ updater = <<>>
    /\ CallIdle /\ ModeIdle /\ DecoIdle /\ ConfIdle

TakeStepCall(delta_s, factor) ==
    /\ ~call.called
    /\ LET r == TakeStepWithinTrustRadius(coords, alpha, delta_s, factor)
       IN  /\ coords' = r.coords
           /\ call' = [called |-> TRUE, delta_s |-> delta_s, factor |-> factor,
                       old |-> coords, ret |-> r.ret, n_to_cart |-> r.n_to_cart,
                       others |-> <<species, alpha, g, h, h_inv, prev, iteration>>]
    /\ UNCHANGED <<species, alpha, g, h, h_inv, prev, iteration, phase, pc, trace, updater>>
    /\ UNCHANGED <<modeVars, decoVars, conf>>

NextTrust == \E delta_s \in DeltaVals, factor \in FactorVals : TakeStepCall(delta_s, factor)

SpecTrust == InitTrust /\ [][NextTrust]_vars

\* Cartesian displacement between two sets of internal coordinates
CartDelta(new, old) == VSub(ToCart(new), ToCart(old))

\* C1 (as claimed): after a non-empty step the accepted Cartesian displacement
\* has maximum component <= alpha for any factor, and equals the raw step's
\* displacement when that displacement's maximum component is <= alpha
C1_TrustRegionBound ==
    (call.called /\ Len(call.delta_s) > 0) =>
        LET accepted == CartDelta(coords, call.old)
            raw      == CartDelta(VAdd(call.old, call.delta_s), call.old)
        IN  /\ RLe(MaxAbs(accepted), alpha)
            /\ (RLe(MaxAbs(raw), alpha) => accepted = raw)

\* C5: a zero-length step leaves _coords and every other field unchanged,
\* returns 0 and converts nothing to Cartesian, whatever alpha and factor are
C5_EmptyStepIdempotent ==
    (call.called /\ Len(call.delta_s) = 0) =>
        /\ coords = call.old
        /\ <<species, alpha, g, h, h_inv, prev, iteration>> = call.others
        /\ call.ret = Zero
        /\ call.n_to_cart = 0

C5_Witness ==
    /\ call.called /\ Len(call.delta_s) = 0
    /\ call.factor = <<2, 1>> /\ alpha = <<1, 2>> /\ coords # [i \in 1..NDof |-> Zero]

\* The tentative step's maximum Cartesian component
TentativeMax == MaxAbs(CartDelta(VAdd(call.old, VScale(call.factor, call.delta_s)), call.old))

\* C6 (as claimed): the returned value is the coefficient of the step taken,
\* 1.0 when the tentative step is within the limit and limit / maxComponent
\* when it is not
C6_AppliedFactor ==
    (call.called /\ Len(call.delta_s) > 0) =>
        /\ coords = VAdd(call.old, VScale(call.ret, call.delta_s))
        /\ (RLe(TentativeMax, alpha) => call.ret = One)
        /\ (RLt(alpha, TentativeMax) => call.ret = RDiv(alpha, TentativeMax))

\* C6 (amended): the returned value is the coefficient of the step taken: the
\* factor argument (1.0 by default) when the tentative step is within the
\* limit and limit / maxComponent when it is not
C6_AppliedFactorAmended ==
    (call.called /\ Len(call.delta_s) > 0) =>
        /\ coords = VAdd(call.old, VScale(call.ret, call.delta_s))
        /\ (RLe(TentativeMax, alpha) => call.ret = call.factor)
        /\ (RLt(alpha, TentativeMax) => call.ret = RDiv(alpha, TentativeMax))

C6_Witness ==
    /\ call.called /\ Len(call.delta_s) > 0
    /\ RLt(alpha, TentativeMax)
    /\ call.factor # One
    /\ call.ret = RDiv(alpha, TentativeMax)

(***************************************************************************)
(* SpecMode: the mode selection applied to every ascending eigenvalue list *)
(***************************************************************************)
AugDim  == 3
EigVals == {-20, -10, -5, 0, 5, 10, 15, 30}

\* what np.linalg.eigh may return as eigenvalues: ascending order
AscLists(n) == {l \in [1..n -> EigVals] : \A i \in 1..(n - 1) : l[i] <= l[i + 1]}

InitMode ==
    /\ lmda \in AscLists(AugDim)
    /\ mode = NoMode
    /\ RunIdle /\ CallIdle /\ DecoIdle /\ ConfIdle

SelectMode ==
    /\ mode.status = "none"
    /\ mode' = ModeOf(lmda)
    /\ UNCHANGED <<lmda, runVars, call, decoVars, conf>>

NextMode == SelectMode

SpecMode == InitMode /\ [][NextMode]_vars

\* C3 (as claimed): the chosen eigenvalue has the smallest magnitude among
\* those with magnitude above 1e-16
C3_LowestMagnitudeMode ==
    (mode.status = "ok") =>
        /\ mode.index + 1 \in Eligible(lmda)
        /\ \A k \in Eligible(lmda) : Abs(lmda[mode.index + 1]) <= Abs(lmda[k])

\* C3 (amended): the chosen eigenvalue is the lowest (first in ascending
\* order) among those with magnitude above 1e-16, the others being skipped;
\* it is the one of smallest magnitude when no such eigenvalue is negative
C3_LowestNonZeroMode ==
    /\ (mode.status = "IndexError") => Eligible(lmda) = {}
    /\ (mode.status = "ok") =>
        /\ mode.index + 1 \in Eligible(lmda)
        /\ \A k \in Eligible(lmda) : lmda[mode.index + 1] <= lmda[k]
        /\ (\A k \in Eligible(lmda) : lmda[k] >= 0) =>
               \A k \in Eligible(lmda) : Abs(lmda[mode.index + 1]) <= Abs(lmda[k])

C3_Witness ==
    /\ mode = [status |-> "ok", index |-> 0]
    /\ lmda[1] = -20
    /\ \E k \in 1..Len(lmda) : lmda[k] = 5
    /\ \E k \in 1..Len(lmda) : lmda[k] = 15

(***************************************************************************)
(* SpecDeco: functions called through the decorators of utils.py.  A path  *)
(* is the sequence of directory names below the starting directory; the    *)
(* wrapped function either returns a value or raises.                      *)
(***************************************************************************)
MaxDepth == 2
DirExts  == {"tmp", "scratch"}
ArgVals  == {"a1", "a2"}
RetVals  == {None, "hessian", "energy"}

InitDeco ==
    /\ cwd = <<>>
    /\ dirs \in {{<<>>}, {<<>>, <<"tmp">>}}
    /\ deco = NoDeco
    /\ RunIdle /\ CallIdle /\ ModeIdle /\ ConfIdle

DecoFree == deco.pc \in {"idle", "returned", "raised"}

\* work_in(dir_ext)(func)(args) up to the call of func: lines 15-23
WorkInCall(dir_ext, args) ==
    /\ DecoFree
    /\ Len(cwd) < MaxDepth
    /\ LET here     == cwd
           dir_path == Append(here, dir_ext)
       IN  /\ dirs' = IF dir_path \notin dirs THEN dirs \cup {dir_path} ELSE dirs
           /\ cwd' = dir_path
           /\ deco' = [NoDeco EXCEPT !.fn = "work_in", !.pc = "in_func",
                                     !.here = here, !.dir_path = dir_path,
                                     !.created = (dir_path \notin dirs),
                                     !.args = args]
    /\ UNCHANGED <<runVars, call, modeVars, conf>>

\* func(*args, **kwargs) returns v; os.chdir(here); nothing is returned
WorkInFuncReturns(v) ==
    /\ deco.fn = "work_in" /\ deco.pc = "in_func"
    /\ cwd' = deco.here
    /\ deco' = [deco EXCEPT !.pc = "returned", !.n_calls = @ + 1,
                            !.func_args = deco.args, !.func_ret = v,
                            !.result = None]
    /\ UNCHANGED <<dirs, runVars, call, modeVars, conf>>

\* func(*args, **kwargs) raises: the exception leaves wrapped_function at line 24
WorkInFuncRaises ==
    /\ deco.fn = "work_in" /\ deco.pc = "in_func"
    /\ deco' = [deco EXCEPT !.pc = "raised", !.n_calls = @ + 1,
                            !.func_args = deco.args, !.exc = "Exception"]
    /\ UNCHANGED <<cwd, dirs, runVars, call, modeVars, conf>>

\* requires_atoms(func)(species, args) up to the call of func: lines 37-38
RequiresAtomsCall(n_atoms, args) ==
    /\ DecoFree
    /\ deco' = IF n_atoms = 0
               THEN [NoDeco EXCEPT !.fn = "requires_atoms", !.pc = "raised",
                                   !.here = cwd, !.n_atoms = n_atoms, !.args = args,
                                   !.exc = "NoAtomsInMolecule"]
               ELSE [NoDeco EXCEPT !.fn = "requires_atoms", !.pc = "in_func",
                                   !.here = cwd, !.n_atoms = n_atoms, !.args = args]
    /\ UNCHANGED <<cwd, dirs, runVars, call, modeVars, conf>>

\* func(species, *args, **kwargs) returns v; nothing is returned
RequiresAtomsFuncReturns(v) ==
    /\ deco.fn = "requires_atoms" /\ deco.pc = "in_func"
    /\ deco' = [deco EXCEPT !.pc = "returned", !.n_calls = @ + 1,
                            !.func_args = deco.args, !.func_ret = v,
                            !.result = None]
    /\ UNCHANGED <<cwd, dirs, runVars, call, modeVars, conf>>

RequiresAtomsFuncRaises ==
    /\ deco.fn = "requires_atoms" /\ deco.pc = "in_func"
    /\ deco' = [deco EXCEPT !.pc = "raised", !.n_calls = @ + 1,
                            !.func_args = deco.args, !.exc = "Exception"]
    /\ UNCHANGED <<cwd, dirs, runVars, call, modeVars, conf>>

NextDeco ==
    \/ \E d \in DirExts, a \in ArgVals : WorkInCall(d, a)
    \/ \E v \in RetVals : WorkInFuncReturns(v)
    \/ WorkInFuncRaises
    \/ \E n \in 0..1, a \in ArgVals : RequiresAtomsCall(n, a)
    \/ \E v \in RetVals : RequiresAtomsFuncReturns(v)
    \/ RequiresAtomsFuncRaises

SpecDeco == InitDeco /\ [][NextDeco]_vars

\* C2: a function run through work_in executes in the scratch directory, which
\* exists, and on every exit path, the raising one included, the current
\* directory is again the one the call was made from
C2_ScopedWorkingDirectory ==
    (deco.fn = "work_in") =>
        /\ (deco.pc = "in_func") => (cwd = deco.dir_path /\ deco.dir_path \in dirs)
        /\ (deco.pc \in {"returned", "raised"}) => cwd = deco.here

\* C10: the decorators invoke the wrapped function exactly once with the
\* caller's arguments (requires_atoms: not at all, raising NoAtomsInMolecule,
\* when n_atoms = 0) and hand its return value back unchanged
C10_DecoratorTransparency ==
    /\ (deco.fn = "requires_atoms" /\ deco.n_atoms = 0) =>
           (deco.pc = "raised" /\ deco.exc = "NoAtomsInMolecule" /\ deco.n_calls = 0)
    /\ (deco.pc = "returned") =>
           /\ deco.n_calls = 1
           /\ deco.func_args = deco.args
           /\ deco.result = deco.func_ret

(***************************************************************************)
(* SpecConf: generate_unique_rdkit_confs on n embedded conformers with ids *)
(* 0..n-1 and any symmetric relation "RMSD < 0.5" between them             *)
(***************************************************************************)
MaxConfs == 4

Pairs(n) == {p \in SUBSET (0..(n - 1)) : Cardinality(p) = 2}

\* rdMolAlign.AlignMol(mol_obj, mol_obj, prbCid=a, refCid=b) < 0.5
RmsdBelowThreshold(close, a, b) == {a, b} \in close

RECURSIVE Prune(_, _, _, _)
\* the loop of lines 82-92 from candidate i on
Prune(i, n, close, unique_conf_ids) ==
    IF i >= n THEN unique_conf_ids
    ELSE LET is_unique == \A j \in 0..(Len(unique_conf_ids) - 1) :
                              ~RmsdBelowThreshold(close, j, i)
         IN  Prune(i + 1, n, close,
                   IF is_unique THEN Append(unique_conf_ids, i) ELSE unique_conf_ids)

GenerateUniqueRdkitConfs(n, close) == Prune(1, n, close, <<0>>)

InitConf ==
    /\ \E n \in 1..MaxConfs, close \in SUBSET Pairs(MaxConfs) :
           /\ close \subseteq Pairs(n)
           /\ conf = [NoConf EXCEPT !.n = n, !.close = close]
    /\ RunIdle /\ CallIdle /\ ModeIdle /\ DecoIdle

GenerateCall ==
    /\ ~conf.done
    /\ conf' = [conf EXCEPT !.done = TRUE,
                            !.unique_conf_ids = GenerateUniqueRdkitConfs(conf.n, conf.close)]
    /\ UNCHANGED <<runVars, call, modeVars, decoVars>>

NextConf == GenerateCall

SpecConf == InitConf /\ [][NextConf]_vars

\* C8: no two conformers of the returned id list have an RMSD below 0.5
C8_PairwiseSeparated ==
    conf.done =>
        \A a, b \in 1..Len(conf.unique_conf_ids) :
            a # b => ~RmsdBelowThreshold(conf.close, conf.unique_conf_ids[a],
                                         conf.unique_conf_ids[b])

(***************************************************************************)
(* Spec: one optimisation run of an RFOptimiser on a species with a single *)
(* internal coordinate.  The oracle (energy/gradient and Hessian) answers  *)
(* with a value or fails; np.linalg.eigh answers with any ascending        *)
(* eigenvalue list having a non-zero entry and any eigenvectors.           *)
(***************************************************************************)
MaxIter == 3

SpeciesVals == {[coordinates |-> <<Int2R(x), Int2R(x)>>, hessian |-> <<>>] : x \in 0..1}
\* Cartesian Hessians <<H11, H12, H22>> the low-level method may give
CartHessVals == {<<1, 0, 1>>, <<0, 0, 0>>, <<-1, 0, -2>>, <<2, -1, 1>>}
GradVals     == {<<Int2R(-1)>>, <<Zero>>, <<Int2R(2)>>}
StepVals     == {-1, 3}
\* the oracle's Failure answer: no value
Failure      == <<>>

\* update_h_from_cart_h: J^T H J with J = d(cart)/d(internal) = (1, 1)
UpdateHFromCartH(cart_h) == Int2R(cart_h[1] + 2 * cart_h[2] + cart_h[3])

\* make_hessian_positive_definite: eigenvalues below the floor are raised to it
HFloor == One
MakeHessianPositiveDefinite(hh) == IF RLt(hh, HFloor) THEN HFloor ELSE hh

\* the statements of _initialise_run, in the order it executes them
\* variant: the gradient is requested before the Hessian is made positive definite
InitialiseRunSwapsLastTwo == <<"to_dic", "ll_hessian", "update_g", "make_pd">>
InitialiseRunOrder == <<"to_dic", "ll_hessian", "make_pd", "update_g">>

\* the statement after op in _initialise_run
NextOp(op) ==
    LET i == CHOOSE k \in 1..Len(InitialiseRunOrder) : InitialiseRunOrder[k] = op
    IN  IF i = Len(InitialiseRunOrder) THEN "init_done" ELSE InitialiseRunOrder[i + 1]

\* _low_level_cart_hessian: the species left behind in self._species and the
\* value returned, when calc_hessian gives cart_h
LowLevelCartHessian(sp, cart_h) ==
    LET copy == [sp EXCEPT !.hessian = cart_h]
    IN  [species |-> sp, ret |-> copy.hessian]

\* an exception raised by _update_gradient_and_energy inside _initialise_run
\* is not caught there
\* variant: the exception is caught and initialisation goes on
InitialiseRunSwallowsFailure == [phase |-> "Initialising", pc |-> NextOp("update_g")]
InitialiseRunOnFailure == [phase |-> "Failed", pc |-> "raised"]

\* self._hessian_update_types
\* variant: the list without the trailing NullUpdate
OnlyBFGSPDUpdate   == <<"BFGSPD">>
HessianUpdateTypes == <<"BFGSPD", "Null">>

\* change of geometry and of gradient since the previous iterate
DeltaGeometry == IF prev.coords = <<>> THEN [i \in 1..Len(coords) |-> Zero]
                 ELSE VSub(coords, prev.coords)
DeltaGradient == IF prev.g = <<>> THEN [i \in 1..Len(coords) |-> Zero]
                 ELSE VSub(g, prev.g)

\* applicability of an update strategy: BFGS needs the curvature condition
ConditionsMet(type, s, y) ==
    IF type = "BFGSPD" THEN RLt(Zero, Dot(s, y)) ELSE TRUE

\* the inverse Hessian a strategy gives; in one dimension BFGS is s / y
UpdatedHInvBy(type, hinv, s, y) ==
    IF type = "BFGSPD" THEN RDiv(s[1], y[1]) ELSE hinv

\* first applicable strategy of the list
BestHessianUpdater(types, s, y) ==
    LET ok == {k \in 1..Len(types) : ConditionsMet(types[k], s, y)}
    IN  IF ok = {} THEN "NoUpdate" ELSE types[MinOf(ok)]

Init ==
    /\ species \in SpeciesVals
    /\ alpha \in AlphaVals
    /\ coords = <<>> /\ g = <<>> /\ h = <<>> /\ h_inv = <<>> /\ prev = NoPrev
    /\ iteration = 0 /\ phase = "Uninitialised" /\ pc = "idle"
    /\ trace = <<>> /\ updater = <<>>
    /\ CallIdle /\ ModeIdle /\ DecoIdle /\ ConfIdle

rest == <<call, modeVars, decoVars, conf>>

\* optimise is called: _initialise_run starts
StartRun ==
    /\ phase = "Uninitialised"
    /\ phase' = "Initialising"
    /\ pc' = InitialiseRunOrder[1]
    /\ UNCHANGED <<species, coords, alpha, g, h, h_inv, prev, iteration, trace, updater, rest>>

\* line 65: CartesianCoordinates(self._species.coordinates).to("dic")
InitToDIC ==
    /\ phase = "Initialising" /\ pc = "to_dic"
    /\ coords' = ToDIC(species.coordinates)
    /\ trace' = Append(trace, "to_dic")
    /\ pc' = NextOp("to_dic")
    /\ UNCHANGED <<species, alpha, g, h, h_inv, prev, iteration, phase, updater, rest>>

\* line 68: self._coords.update_h_from_cart_h(self._low_level_cart_hessian)
InitLowLevelHessian(answer) ==
    /\ phase = "Initialising" /\ pc = "ll_hessian"
    /\ IF answer = Failure
       THEN /\ phase' = "Failed" /\ pc' = "raised"
            /\ trace' = Append(trace, "ll_hessian_failed")
            /\ UNCHANGED <<species, h>>
       ELSE LET r == LowLevelCartHessian(species, answer)
            IN  /\ species' = r.species
                /\ h' = UpdateHFromCartH(r.ret)
                /\ trace' = Append(trace, "ll_hessian")
                /\ pc' = NextOp("ll_hessian")
                /\ UNCHANGED phase
    /\ UNCHANGED <<coords, alpha, g, h_inv, prev, iteration, updater, rest>>

\* line 69: self._coords.make_hessian_positive_definite()
InitMakePD ==
    /\ phase = "Initialising" /\ pc = "make_pd"
    /\ h' = MakeHessianPositiveDefinite(h)
    /\ h_inv' = RDiv(One, h')
    /\ trace' = Append(trace, "make_pd")
    /\ pc' = NextOp("make_pd")
    /\ UNCHANGED <<species, coords, alpha, g, prev, iteration, phase, updater, rest>>

\* line 70: self._update_gradient_and_energy()
InitUpdateGradient(answer) ==
    /\ phase = "Initialising" /\ pc = "update_g"
    /\ IF answer = Failure
       THEN /\ phase' = InitialiseRunOnFailure.phase
            /\ pc' = InitialiseRunOnFailure.pc
            /\ trace' = Append(trace, "update_g_failed")
            /\ UNCHANGED g
       ELSE /\ g' = answer
            /\ trace' = Append(trace, "update_g")
            /\ pc' = NextOp("update_g")
            /\ UNCHANGED phase
    /\ UNCHANGED <<species, coords, alpha, h, h_inv, prev, iteration, updater, rest>>

\* line 72: _initialise_run returns, the driver starts iterating
InitDone ==
    /\ phase = "Initialising" /\ pc = "init_done"
    /\ phase' = "Iterating"
    /\ pc' = "check"
    /\ UNCHANGED <<species, coords, alpha, g, h, h_inv, prev, iteration, trace, updater, rest>>

\* convergence and iteration-limit test between iterations
CheckConverged ==
    /\ phase = "Iterating" /\ pc = "check"
    /\ IF g = <<Zero>>
       THEN phase' = "Converged" /\ pc' = "end"
       ELSE IF iteration >= MaxIter
            THEN phase' = "IterationLimitReached" /\ pc' = "end"
            ELSE phase' = phase /\ pc' = "step"
    /\ UNCHANGED <<species, coords, alpha, g, h, h_inv, prev, iteration, trace, updater, rest>>

\* RFOptimiser._step with eigh giving eigenvalues l and, per mode, the ratio
\* ds of the eigenvector's leading component to its last
Step(l, ds) ==
    /\ phase = "Iterating" /\ pc = "step"
    /\ LET s    == DeltaGeometry
           y    == DeltaGradient
           type == BestHessianUpdater(HessianUpdateTypes, s, y)
       IN  IF type = "NoUpdate"
           THEN /\ phase' = "Failed" /\ pc' = "raised"
                /\ updater' = Append(updater, type)
                /\ trace' = Append(trace, "step_failed")
                /\ UNCHANGED <<coords, h, h_inv, prev, iteration>>
           ELSE LET m       == ModeOf(l)
                    delta_s == <<Int2R(ds[m.index + 1])>>
                    r       == TakeStepWithinTrustRadius(coords, alpha, delta_s, One)
                IN  /\ h_inv' = UpdatedHInvBy(type, h_inv, s, y)
                    /\ h' = RDiv(One, h_inv')
                    /\ updater' = Append(updater, type)
                    /\ prev' = [coords |-> coords, g |-> g]
                    /\ coords' = r.coords
                    /\ iteration' = iteration + 1
                    /\ trace' = Append(trace, "step")
                    /\ pc' = "gradient"
                    /\ UNCHANGED phase
    /\ UNCHANGED <<species, alpha, g, rest>>

\* energy and gradient requested from the oracle at the new geometry
IterUpdateGradient(answer) ==
    /\ phase = "Iterating" /\ pc = "gradient"
    /\ IF answer = Failure
       THEN /\ phase' = "Failed" /\ pc' = "raised"
            /\ trace' = Append(trace, "update_g_failed")
            /\ UNCHANGED g
       ELSE /\ g' = answer
            /\ trace' = Append(trace, "update_g")
            /\ pc' = "check"
            /\ UNCHANGED phase
    /\ UNCHANGED <<species, coords, alpha, h, h_inv, prev, iteration, updater, rest>>

RunEigLists == {l \in AscLists(2) : Eligible(l) # {}}

Next ==
    \/ StartRun
    \/ InitToDIC
    \/ \E a \in CartHessVals \cup {Failure} : InitLowLevelHessian(a)
    \/ InitMakePD
    \/ \E a \in GradVals \cup {Failure} : InitUpdateGradient(a)
    \/ InitDone
    \/ CheckConverged
    \/ \E l \in RunEigLists, ds \in [1..2 -> StepVals] : Step(l, ds)
    \/ \E a \in GradVals \cup {Failure} : IterUpdateGradient(a)

Spec == Init /\ [][Next]_vars

\* C4: when the oracle fails on the first energy/gradient request, made by
\* _initialise_run, the run is Failed for good, nothing is requested again
\* and no RFO step is executed
C4_FailurePropagation ==
    LET req == {i \in 1..Len(trace) : trace[i] \in {"update_g", "update_g_failed"}}
    IN  (req # {} /\ trace[MinOf(req)] = "update_g_failed") =>
            /\ phase = "Failed"
            /\ Len(trace) = MinOf(req)
            /\ iteration = 0
            /\ \A i \in 1..Len(trace) : trace[i] # "step"

C4_Witness ==
    /\ phase = "Failed"
    /\ trace = <<"to_dic", "ll_hessian", "make_pd", "update_g_failed">>

\* C7: every RFO step takes its inverse Hessian from BFGS exactly when the
\* curvature condition (displacement . gradient change > 0) holds and from
\* the Null update, which leaves the Hessian unchanged, otherwise; no step
\* ends without a strategy
C7_HessianUpdateDispatch ==
    [][(iteration' # iteration \/ updater' # updater) =>
        LET used == updater'[Len(updater')]
        IN  /\ iteration' = iteration + 1
            /\ Len(updater') = Len(updater) + 1
            /\ used \in {"BFGSPD", "Null"}
            /\ (used = "BFGSPD") <=> RLt(Zero, Dot(DeltaGeometry, DeltaGradient))
            /\ (used = "BFGSPD") => RLt(Zero, h_inv')
            /\ (used = "Null") => (h_inv' = h_inv /\ h' = h)]_vars

C7_Witness ==
    /\ Len(updater) = 3
    /\ updater[2] = "BFGSPD"
    /\ updater[3] = "Null"
    /\ h_inv # One

\* C9: _initialise_run converts to DIC, gets the low-level Hessian on a copy
\* of the species, makes the Hessian positive definite and requests energy
\* and gradient, in this order and once each; the Hessian is positive
\* definite before the first energy/gradient request and before any step
C9_InitialisationOrdering ==
    LET order == <<"to_dic", "ll_hessian", "make_pd", "update_g">>
        n     == IF Len(trace) < 4 THEN Len(trace) ELSE 4
    IN  /\ \A i \in 1..n :
               \/ trace[i] = order[i]
               \/ /\ i = Len(trace) /\ phase = "Failed"
                  /\ \/ order[i] = "ll_hessian" /\ trace[i] = "ll_hessian_failed"
                     \/ order[i] = "update_g" /\ trace[i] = "update_g_failed"
        /\ \A i \in 5..Len(trace) : trace[i] \in {"step", "update_g", "update_g_failed"}
        /\ (phase \in {"Iterating", "Converged", "IterationLimitReached"}) =>
               (Len(trace) >= 4 /\ SubSeq(trace, 1, 4) = order)
        /\ species \in SpeciesVals
        /\ (\/ pc \in {"update_g", "step"}
            \/ \E i \in 1..Len(trace) : trace[i] \in {"update_g", "update_g_failed", "step"}) =>
               (h # <<>> /\ RLt(Zero, h))

C9_Witness ==
    /\ phase = "Iterating"
    /\ trace = <<"to_dic", "ll_hessian", "make_pd", "update_g", "step">>
    /\ species.hessian = <<>>

====
